---- MODULE Spec2Model ----
(***************************************************************************)
(* Model of src/failed-report.ts: two Playwright reporters.                *)
(*   - the failure-only reporter (lines 1-766): aggregates failed tests in *)
(*     failedTests, writes costum-report/failed-report.html, posts to a    *)
(*     Teams webhook and sends a mail with retries;                        *)
(*   - the full-run reporter (lines 769-1112): aggregates every test in    *)
(*     tests, computes the run statistics and writes                       *)
(*     costum-report/full-test-report.html.                                *)
(* A Map is a sequence of entries [describeName, tests] in insertion       *)
(* order.  A string the code inspects character by character is a sequence *)
(* of one-character strings, "ESC" standing for the character \x1B.        *)
(* An optional field is a sequence: <<>> is undefined, <<v>> is v.         *)
(***************************************************************************)
EXTENDS Integers, Sequences, FiniteSets, TLC

VARIABLES
  events,        \* history: the (test, result) pairs the host passed to onTestEnd
  failedTests,   \* failure-only reporter: this.failedTests          (line 64)
  tests,         \* full-run reporter: this.tests                    (line 820)
  stats,         \* the model an onEnd computes for its report (lines 124-136, 899-928)
  WEB_HOOK_URL,  \* module variable read from the environment        (line 9)
  pc,            \* position of the host / of the failure-only onEnd
  attempt,       \* loop variable of sendEmailWithRetry              (line 744)
  retries,       \* parameter of sendEmailWithRetry                  (line 743)
  calls,         \* history: outward calls made, in order
  log,           \* history: console output, in order
  thrown,        \* history: the exceptions that left an onEnd uncaught
  script,        \* outcomes a scripted transport double will give
  input,         \* argument of a function that is run on its own
  output         \* what that function returned, <<>> before it has run

vars == <<events, failedTests, tests, stats, WEB_HOOK_URL, pc, attempt,
          retries, calls, log, thrown, script, input, output>>

----------------------------------------------------------------------------
(* Bounds *)

MaxEvents == 3        \* onTestEnd events per run
MaxRetries == 4       \* largest retry budget given to sendEmailWithRetry

(* Program constants *)

DefaultDelay == 1000        \* delay = 1000, line 743

DefaultRetries == 3   \* retries = 3, line 743

----------------------------------------------------------------------------
(* Small helpers over sequences *)

None == <<>>

Some(x) == <<x>>

Min(a, b) == IF a <= b THEN a ELSE b

RECURSIVE Flat(_)
\* Array.from(map.values()).flat()
Flat(m) == IF m = <<>> THEN <<>> ELSE m[1].tests \o Flat(Tail(m))

RECURSIVE FirstSeen(_, _)
\* the names of a sequence in the order of their first occurrence
FirstSeen(names, seen) ==
  IF names = <<>> THEN <<>>
  ELSE IF names[1] \in seen THEN FirstSeen(Tail(names), seen)
  ELSE <<names[1]>> \o FirstSeen(Tail(names), seen \cup {names[1]})

----------------------------------------------------------------------------
(* Console output: a line has a level, a fixed text, the attempt number    *)
(* (0 when the text has none) and the test title it names ("" when none)   *)

Line(level, msg, n) == [level |-> level, msg |-> msg, attempt |-> n, about |-> ""]

LineAbout(level, msg, title) ==
  [level |-> level, msg |-> msg, attempt |-> 0, about |-> title]

----------------------------------------------------------------------------
(* Strings as character sequences *)

Digits == {"0", "1", "2", "3", "4", "5", "6", "7", "8", "9"}

Letters == {"a", "b", "c", "d", "e", "f", "g", "h", "i", "j", "k", "l", "m",
            "n", "o", "p", "q", "r", "s", "t", "u", "v", "w", "x", "y", "z",
            "A", "B", "C", "D", "E", "F", "G", "H", "I", "J", "K", "L", "M",
            "N", "O", "P", "Q", "R", "S", "T", "U", "V", "W", "X", "Y", "Z"}

Drop(s, n) == IF n >= Len(s) THEN <<>> ELSE SubSeq(s, n + 1, Len(s))

RECURSIVE SkipParams(_, _)
\* [0-9;]* : the index of the first character at or after i that is neither
\* a digit nor ';'
SkipParams(s, i) ==
  IF i <= Len(s) /\ s[i] \in Digits \cup {";"} THEN SkipParams(s, i + 1) ELSE i

AnsiMatchEnd(s) ==
\* length of the match of /\x1B\[[0-9;]*[a-zA-Z]/ at the start of s, 0 if none
  IF Len(s) >= 3 /\ s[1] = "ESC" /\ s[2] = "["
  THEN LET j == SkipParams(s, 3)
       IN IF j <= Len(s) /\ s[j] \in Letters THEN j ELSE 0
  ELSE 0

RECURSIVE stripAnsiCodes(_)
\* str.replace(/\x1B\[[0-9;]*[a-zA-Z]/g, "")
stripAnsiCodes(str) ==
  IF str = <<>> THEN <<>>
  ELSE LET n == AnsiMatchEnd(str)
       IN IF n > 0 THEN stripAnsiCodes(Drop(str, n))
          ELSE <<str[1]>> \o stripAnsiCodes(Tail(str))

NoErrorMessage ==
  <<"N", "o", " ", "e", "r", "r", "o", "r", " ", "m", "e", "s", "s", "a", "g", "e">>

\* error.message || "No error message"
MessageOf(error) == IF error = <<>> THEN NoErrorMessage ELSE error

----------------------------------------------------------------------------
(* More string operations *)

UpperCase == <<"A", "B", "C", "D", "E", "F", "G", "H", "I", "J", "K", "L", "M", "N", "O", "P", "Q", "R", "S", "T", "U", "V", "W", "X", "Y", "Z">>

LowerCase == <<"a", "b", "c", "d", "e", "f", "g", "h", "i", "j", "k", "l", "m", "n", "o", "p", "q", "r", "s", "t", "u", "v", "w", "x", "y", "z">>

\* the 'i' flag of a regular expression: letters compare by their lower case
ToLower(ch) ==
  IF \E i \in 1..26 : UpperCase[i] = ch
  THEN LowerCase[CHOOSE i \in 1..26 : UpperCase[i] = ch]
  ELSE ch

\* \s and String.prototype.trim: the white space that occurs in the inputs
WhiteSpace == {" ", "\t", "\n", "\r"}

\* tag.startsWith(prefix)
StartsWith(str, prefix) ==
  Len(str) >= Len(prefix) /\ SubSeq(str, 1, Len(prefix)) = prefix

\* tag.includes(ch)
Includes(str, ch) == \E i \in 1..Len(str) : str[i] = ch

\* str.indexOf(ch), counted from 1; 0 when ch does not occur
IndexOf(str, ch) ==
  IF Includes(str, ch)
  THEN CHOOSE i \in 1..Len(str) : str[i] = ch /\ \A j \in 1..(i - 1) : str[j] # ch
  ELSE 0

\* str.split(":")[0]
FirstPiece(str) ==
  IF Includes(str, ":") THEN SubSeq(str, 1, IndexOf(str, ":") - 1) ELSE str

\* mutant of SecondPiece: everything after the first ":" is the value
SecondPieceRest(str) == Drop(str, IndexOf(str, ":"))

\* str.split(":")[1], for a str that contains ":"
SecondPiece(str) == FirstPiece(Drop(str, IndexOf(str, ":")))

RECURSIVE TrimStart(_)
TrimStart(str) ==
  IF str # <<>> /\ str[1] \in WhiteSpace THEN TrimStart(Tail(str)) ELSE str

RECURSIVE TrimEnd(_)
TrimEnd(str) ==
  IF str # <<>> /\ str[Len(str)] \in WhiteSpace
  THEN TrimEnd(SubSeq(str, 1, Len(str) - 1))
  ELSE str

\* str.trim()
Trim(str) == TrimEnd(TrimStart(str))

----------------------------------------------------------------------------
(* extractTags and extractDataFromTags, lines 16-54 and 781-817.  A tag is *)
(* a character sequence.  customTags is the sequence of its entries in     *)
(* insertion order; an entry holds its key, whether its value is an array, *)
(* and the value as a list of strings (one string when it is not an array) *)

NoTagsFailed == <<<<"N", "o", " ", "t", "a", "g", "s">>>>              \* ["No tags"], line 18

NoTagsFull == <<<<"A", "u", "c", "u", "n", " ", "t", "a", "g">>>>              \* ["Aucun tag"], line 783

\* mutant of extractTags: an empty tag list is returned as it is
extractTagsKeepsEmpty(tags, placeholder) == tags

\* tags.length > 0 ? tags : placeholder
extractTags(tags, placeholder) == IF Len(tags) > 0 THEN tags ELSE placeholder

NotAvailable == <<"N", "/", "A">>        \* "N/A"

PrefixLocal == <<"@", "l", "o", "c", "a", "l", ":">>

PrefixLocale == <<"@", "l", "o", "c", "a", "l", "e", ":">>

PrefixRealm == <<"@", "r", "e", "a", "l", "m", ":">>

PrefixPayment == <<"@", "p", "a", "y", "m", "e", "n", "t", "_", "m", "e", "t", "h", "o", "d", ":">>

KeyPayment == <<"p", "a", "y", "m", "e", "n", "t", "_", "m", "e", "t", "h", "o", "d">>

EmptyData == [local |-> NotAvailable, realm |-> NotAvailable, customTags |-> <<>>]

HasKey(ct, key) == \E i \in 1..Len(ct) : ct[i].key = key

\* mutant of PushValue: a value the array already holds is not pushed again
PushValueDistinct(ct, key, value) ==
  IF HasKey(ct, key)
  THEN [i \in 1..Len(ct) |->
          IF ct[i].key = key /\ \A j \in 1..Len(ct[i].value) : ct[i].value[j] # value
          THEN [ct[i] EXCEPT !.value = Append(ct[i].value, value)]
          ELSE ct[i]]
  ELSE Append(ct, [key |-> key, array |-> TRUE, value |-> <<value>>])

\* (customTags[key] as string[]).push(value), after customTags[key] = [] when
\* the key is absent
PushValue(ct, key, value) ==
  IF HasKey(ct, key)
  THEN [i \in 1..Len(ct) |->
          IF ct[i].key = key
          THEN [ct[i] EXCEPT !.value = Append(ct[i].value, value)]
          ELSE ct[i]]
  ELSE Append(ct, [key |-> key, array |-> TRUE, value |-> <<value>>])

\* mutant of SetValue: an existing property keeps its first value
SetValueKeepsFirst(ct, key, value) ==
  IF HasKey(ct, key) THEN ct
  ELSE Append(ct, [key |-> key, array |-> FALSE, value |-> <<value>>])

\* customTags[key] = value: an existing property keeps its place
SetValue(ct, key, value) ==
  IF HasKey(ct, key)
  THEN [i \in 1..Len(ct) |->
          IF ct[i].key = key
          THEN [key |-> key, array |-> FALSE, value |-> <<value>>]
          ELSE ct[i]]
  ELSE Append(ct, [key |-> key, array |-> FALSE, value |-> <<value>>])

\* mutant of ParseTag: a generic tag needs no colon
ParseTagNoColon(data, tag) ==
  IF StartsWith(tag, PrefixLocal) THEN [data EXCEPT !.local = Drop(tag, Len(PrefixLocal))]
  ELSE IF StartsWith(tag, PrefixLocale) THEN [data EXCEPT !.local = Drop(tag, Len(PrefixLocale))]
  ELSE IF StartsWith(tag, PrefixRealm) THEN [data EXCEPT !.realm = Drop(tag, Len(PrefixRealm))]
  ELSE IF StartsWith(tag, PrefixPayment)
       THEN [data EXCEPT !.customTags = PushValue(@, KeyPayment, Drop(tag, Len(PrefixPayment)))]
  ELSE IF StartsWith(tag, <<"@">>)
       THEN [data EXCEPT !.customTags = SetValue(@, FirstPiece(Tail(tag)), SecondPiece(Tail(tag)))]
  ELSE data

\* mutant of ParseTag: the branch of the generic tags comes before the branch
\* of the payment methods
ParseTagGenericFirst(data, tag) ==
  IF StartsWith(tag, PrefixLocal) THEN [data EXCEPT !.local = Drop(tag, Len(PrefixLocal))]
  ELSE IF StartsWith(tag, PrefixLocale) THEN [data EXCEPT !.local = Drop(tag, Len(PrefixLocale))]
  ELSE IF StartsWith(tag, PrefixRealm) THEN [data EXCEPT !.realm = Drop(tag, Len(PrefixRealm))]
  ELSE IF StartsWith(tag, <<"@">>) /\ Includes(tag, ":")
       THEN [data EXCEPT !.customTags = SetValue(@, FirstPiece(Tail(tag)), SecondPiece(Tail(tag)))]
  ELSE IF StartsWith(tag, PrefixPayment)
       THEN [data EXCEPT !.customTags = PushValue(@, KeyPayment, Drop(tag, Len(PrefixPayment)))]
  ELSE data

\* the body of the loop, lines 34-45
ParseTag(data, tag) ==
  IF StartsWith(tag, PrefixLocal) THEN [data EXCEPT !.local = Drop(tag, Len(PrefixLocal))]
  ELSE IF StartsWith(tag, PrefixLocale) THEN [data EXCEPT !.local = Drop(tag, Len(PrefixLocale))]
  ELSE IF StartsWith(tag, PrefixRealm) THEN [data EXCEPT !.realm = Drop(tag, Len(PrefixRealm))]
  ELSE IF StartsWith(tag, PrefixPayment)
       THEN [data EXCEPT !.customTags = PushValue(@, KeyPayment, Drop(tag, Len(PrefixPayment)))]
  ELSE IF StartsWith(tag, <<"@">>) /\ Includes(tag, ":")
       THEN [data EXCEPT !.customTags = SetValue(@, FirstPiece(Tail(tag)), SecondPiece(Tail(tag)))]
  ELSE data

RECURSIVE ParseTags(_, _)
ParseTags(data, tags) ==
  IF tags = <<>> THEN data ELSE ParseTags(ParseTag(data, tags[1]), Tail(tags))

\* the value returned at line 53
extractDataFromTags(tags) == ParseTags(EmptyData, tags)

\* the condition of the warning, line 49
MissingData(data) == data.local = NotAvailable \/ data.realm = NotAvailable

MsgMissingData == "Missing data for test"

----------------------------------------------------------------------------
(* The two extractions of onTestEnd, lines 93-98 and 875-880:              *)
(*   raw.matchAll(/Expected(?: value)?:\s*([^\n]+)/gi)                     *)
(*   raw.matchAll(/(?:Received|Actual):\s*([^\n]+)/gi)                     *)
(* each capture being trimmed, then stripped of its escape sequences.      *)

KeywordsExpected == <<<<"e", "x", "p", "e", "c", "t", "e", "d", " ", "v", "a", "l", "u", "e", ":">>,
                      <<"e", "x", "p", "e", "c", "t", "e", "d", ":">>>>

KeywordsActual == <<<<"r", "e", "c", "e", "i", "v", "e", "d", ":">>,
                    <<"a", "c", "t", "u", "a", "l", ":">>>>

\* does keyword kw, letters compared without case, stand at position i of str
KeywordAt(str, i, kw) ==
  /\ i + Len(kw) - 1 <= Len(str)
  /\ \A k \in 1..Len(kw) : ToLower(str[i + k - 1]) = kw[k]

\* the position after the keyword that stands at i, 0 when there is none
MatchKeyword(str, i, kws) ==
  IF \E n \in 1..Len(kws) : KeywordAt(str, i, kws[n])
  THEN i + Len(kws[CHOOSE n \in 1..Len(kws) :
                     /\ KeywordAt(str, i, kws[n])
                     /\ \A m \in 1..(n - 1) : ~KeywordAt(str, i, kws[m])])
  ELSE 0

RECURSIVE SkipSpace(_, _)
SkipSpace(str, j) ==
  IF j <= Len(str) /\ str[j] \in WhiteSpace THEN SkipSpace(str, j + 1) ELSE j

\* \s*([^\n]+) from position j: where the capture starts, 0 when it cannot
\* match.  \s* is greedy; when the white space runs to the end of the string
\* it gives characters back until one that is not a line feed is left for
\* the capture.
CaptureStart(str, j) ==
  LET e == SkipSpace(str, j)
      back == {p \in j..Len(str) : str[p] # "\n"}
  IN IF e <= Len(str) THEN e
     ELSE IF back = {} THEN 0
     ELSE CHOOSE p \in back : \A r \in back : r <= p

RECURSIVE CaptureEnd(_, _)
\* [^\n]+ from position p: the last position of the capture
CaptureEnd(str, p) ==
  IF p + 1 <= Len(str) /\ str[p + 1] # "\n" THEN CaptureEnd(str, p + 1) ELSE p

RECURSIVE MatchAll(_, _, _)
\* the captures of the successive matches found from position i on
MatchAll(str, i, kws) ==
  IF i > Len(str) THEN <<>>
  ELSE LET j == MatchKeyword(str, i, kws)
           p == IF j = 0 THEN 0 ELSE CaptureStart(str, j)
       IN IF p = 0 THEN MatchAll(str, i + 1, kws)
          ELSE <<SubSeq(str, p, CaptureEnd(str, p))>>
                 \o MatchAll(str, CaptureEnd(str, p) + 1, kws)

\* .map((m) => stripAnsiCodes(m[1].trim()))
CleanCaptures(caps) == [k \in 1..Len(caps) |-> stripAnsiCodes(Trim(caps[k]))]

ExpectedOf(raw) == CleanCaptures(MatchAll(raw, 1, KeywordsExpected))

ActualOf(raw) == CleanCaptures(MatchAll(raw, 1, KeywordsActual))

----------------------------------------------------------------------------
(* The host's inputs *)

\* an error message in red, as Playwright prints it
MsgBoom == <<"ESC", "[", "3", "1", "m", "b", "o", "o", "m", "ESC", "[", "0", "m">>

MsgOops == <<"o", "o", "p", "s">>

\* an assertion failure: "Expected: 5", line feed, "Received: 3" in red
MsgDiff == <<"E", "x", "p", "e", "c", "t", "e", "d", ":", " ", "5", "\n", "R", "e", "c", "e", "i", "v", "e", "d", ":", " ", "ESC", "[", "3", "1", "m", "3", "ESC", "[", "3", "9", "m">>

\* tags as the tests carry them
TagLocalFr == <<"@", "l", "o", "c", "a", "l", ":", "f", "r">>

TagLocaleDe == <<"@", "l", "o", "c", "a", "l", "e", ":", "d", "e">>

TagRealmEu == <<"@", "r", "e", "a", "l", "m", ":", "e", "u">>

TagRealmUs == <<"@", "r", "e", "a", "l", "m", ":", "u", "s">>

TagPaymentCb == <<"@", "p", "a", "y", "m", "e", "n", "t", "_", "m", "e", "t", "h", "o", "d", ":", "c", "b">>

TagPaymentPaypal == <<"@", "p", "a", "y", "m", "e", "n", "t", "_", "m", "e", "t", "h", "o", "d", ":", "p", "a", "y", "p", "a", "l">>

TagEnvQa == <<"@", "e", "n", "v", ":", "q", "a">>

TagEnvProd == <<"@", "e", "n", "v", ":", "p", "r", "o", "d">>

TagEnvAB == <<"@", "e", "n", "v", ":", "a", ":", "b">>

TagSmoke == <<"@", "s", "m", "o", "k", "e">>

TagLocalNA == <<"@", "l", "o", "c", "a", "l", ":", "N", "/", "A">>

TagNoAt == <<"l", "o", "c", "a", "l", ":", "d", "e">>

TagLocalAB == <<"@", "l", "o", "c", "a", "l", ":", "a", ":", "b">>

TagLocaleAB == <<"@", "l", "o", "c", "a", "l", "e", ":", "a", ":", "b">>

TagRealmAB == <<"@", "r", "e", "a", "l", "m", ":", "a", ":", "b">>

TagPaymentAB == <<"@", "p", "a", "y", "m", "e", "n", "t", "_", "m", "e", "t", "h", "o", "d", ":", "a", ":", "b">>

\* The (test, result) pairs the host may deliver.  status ranges over
\* Playwright's TestResult.status; parent = "" is a test whose parent suite
\* has no title; an error whose message is absent is <<>>.
TestEvents ==
  { [title |-> "t1", parent |-> "Login", status |-> "failed",   duration |-> 5, errors |-> <<MsgBoom>>,
     tags |-> <<TagLocalFr, TagRealmEu, TagPaymentCb, TagPaymentPaypal>>],
    [title |-> "t2", parent |-> "Login", status |-> "failed",   duration |-> 7, errors |-> <<MsgBoom, MsgOops>>,
     tags |-> <<TagLocaleDe, TagRealmUs, TagEnvQa>>],
    [title |-> "t3", parent |-> "Cart",  status |-> "failed",   duration |-> 5, errors |-> <<>>,
     tags |-> <<>>],
    [title |-> "t4", parent |-> "",      status |-> "failed",   duration |-> 7, errors |-> <<<<>>>>,
     tags |-> <<TagSmoke, TagRealmEu>>],
    [title |-> "t5", parent |-> "Login", status |-> "passed",   duration |-> 5, errors |-> <<>>,
     tags |-> <<TagLocalFr, TagNoAt, TagRealmEu, TagEnvProd>>],
    [title |-> "t6", parent |-> "Cart",  status |-> "skipped",  duration |-> 0, errors |-> <<>>,
     tags |-> <<>>],
    [title |-> "t7", parent |-> "",      status |-> "timedOut", duration |-> 7, errors |-> <<MsgOops>>,
     tags |-> <<TagPaymentCb, TagEnvAB>>],
    [title |-> "t8", parent |-> "Cart",  status |-> "failed",   duration |-> 5, errors |-> <<MsgDiff, MsgOops>>,
     tags |-> <<TagLocalFr, TagRealmEu, TagEnvQa, TagPaymentPaypal, TagPaymentPaypal>>] }

WebhookUrls == {"undefined", "", "https://hooks.example/teams"}

----------------------------------------------------------------------------
(* Map operations *)

Has(m, k) == \E i \in 1..Len(m) : m[i].describeName = k

\* map.get(k) || []
GetOrEmpty(m, k) ==
  IF Has(m, k)
  THEN m[CHOOSE i \in 1..Len(m) : m[i].describeName = k].tests
  ELSE <<>>

\* mutant of MapSet: an existing key is deleted and set again, which moves
\* its entry to the end of the Map
MapSetMovesToEnd(m, k, v) ==
  Append(SelectSeq(m, LAMBDA e : e.describeName # k),
         [describeName |-> k, tests |-> v])

\* map.set(k, v): replaces the value of an existing key in place, appends a
\* new key at the end
MapSet(m, k, v) ==
  IF Has(m, k)
  THEN [i \in 1..Len(m) |->
          IF m[i].describeName = k THEN [describeName |-> k, tests |-> v] ELSE m[i]]
  ELSE Append(m, [describeName |-> k, tests |-> v])

\* mutant of Push: the new record replaces the group instead of joining it
PushReplaces(m, k, rec) == MapSet(m, k, <<rec>>)

\* const tests = map.get(k) || []; tests.push(rec); map.set(k, tests)
Push(m, k, rec) == MapSet(m, k, Append(GetOrEmpty(m, k), rec))

----------------------------------------------------------------------------
(* Failure-only reporter: onTestEnd, lines 80-115 *)

\* test.parent?.title || "Tests without describe"
DescribeNameFailed(ev) ==
  IF ev.parent = "" THEN "Tests without describe" ELSE ev.parent

\* the object pushed at lines 101-112 for one error of the event
FailedRecord(ev, error) ==
  LET tags == extractTags(ev.tags, NoTagsFailed)
      data == extractDataFromTags(tags)
  IN [title |-> ev.title, duration |-> ev.duration,
      rawError |-> stripAnsiCodes(MessageOf(error)),
      expected |-> ExpectedOf(MessageOf(error)),
      actual |-> ActualOf(MessageOf(error)),
      tags |-> tags, local |-> data.local, realm |-> data.realm,
      customTags |-> data.customTags]

\* mutant of PushErrors: one record, made from the last error
PushLastError(m, ev, errors) ==
  IF errors = <<>> THEN m
  ELSE Push(m, DescribeNameFailed(ev), FailedRecord(ev, errors[Len(errors)]))

RECURSIVE PushErrors(_, _, _)
\* for (const error of result.errors) { ... tests.push(...); set(...) }
PushErrors(m, ev, errors) ==
  IF errors = <<>> THEN m
  ELSE PushErrors(Push(m, DescribeNameFailed(ev), FailedRecord(ev, errors[1])),
                  ev, Tail(errors))

\* mutant of FailedOnTestEnd: no guard on the status
FailedOnTestEndAnyStatus(m, ev) == PushErrors(m, ev, ev.errors)

FailedOnTestEnd(m, ev) ==
  IF ev.status # "failed" THEN m ELSE PushErrors(m, ev, ev.errors)

\* console.warn of extractDataFromTags (line 50), reached by failed results only
FailedOnTestEndLog(ev) ==
  IF /\ ev.status = "failed"
     /\ MissingData(extractDataFromTags(extractTags(ev.tags, NoTagsFailed)))
  THEN <<LineAbout("warn", MsgMissingData, ev.title)>>
  ELSE <<>>

----------------------------------------------------------------------------
(* Full-run reporter: onTestEnd, lines 837-890 *)

\* test.parent?.title || "Tests sans describe"
DescribeNameFull(ev) ==
  IF ev.parent = "" THEN "Tests sans describe" ELSE ev.parent

RECURSIVE LastRawError(_, _)
\* the loop of lines 872-884: every error overwrites testData.rawError
LastRawError(acc, errors) ==
  IF errors = <<>> THEN acc
  ELSE LastRawError(Some(stripAnsiCodes(MessageOf(errors[1]))), Tail(errors))

RECURSIVE LastCaptures(_, _, _)
\* the same loop: every error overwrites testData.expected (testData.actual)
LastCaptures(acc, errors, kws) ==
  IF errors = <<>> THEN acc
  ELSE LastCaptures(Some(CleanCaptures(MatchAll(MessageOf(errors[1]), 1, kws))),
                    Tail(errors), kws)

\* mutant of TestData: the error loop runs whatever the status
TestDataAnyStatus(ev) ==
  LET tags == extractTags(ev.tags, NoTagsFull)
      data == extractDataFromTags(tags)
  IN [title |-> ev.title, duration |-> ev.duration, status |-> ev.status,
      tags |-> tags, local |-> data.local, realm |-> data.realm,
      customTags |-> data.customTags,
      rawError |-> LastRawError(None, ev.errors),
      expected |-> LastCaptures(None, ev.errors, KeywordsExpected),
      actual |-> LastCaptures(None, ev.errors, KeywordsActual)]

\* testData, lines 845-885
TestData(ev) ==
  LET tags == extractTags(ev.tags, NoTagsFull)
      data == extractDataFromTags(tags)
      failed == ev.status = "failed"
  IN [title |-> ev.title, duration |-> ev.duration, status |-> ev.status,
      tags |-> tags, local |-> data.local, realm |-> data.realm,
      customTags |-> data.customTags,
      rawError |-> IF failed THEN LastRawError(None, ev.errors) ELSE None,
      expected |-> IF failed THEN LastCaptures(None, ev.errors, KeywordsExpected) ELSE None,
      actual |-> IF failed THEN LastCaptures(None, ev.errors, KeywordsActual) ELSE None]

FullOnTestEnd(m, ev) == Push(m, DescribeNameFull(ev), TestData(ev))

\* console.warn of extractDataFromTags (line 813)
FullOnTestEndLog(ev) ==
  IF MissingData(extractDataFromTags(extractTags(ev.tags, NoTagsFull)))
  THEN <<LineAbout("warn", MsgMissingData, ev.title)>>
  ELSE <<>>

----------------------------------------------------------------------------
(* Full-run reporter: the statistics loop of onEnd, lines 899-926 *)

ZeroStats ==
  [totalTests |-> 0, totalPassed |-> 0, totalFailed |-> 0, totalSkipped |-> 0]

\* the body of the inner loop, lines 909-912
CountTest(st, t) ==
  [totalTests   |-> st.totalTests + 1,
   totalPassed  |-> st.totalPassed + (IF t.status = "passed" THEN 1 ELSE 0),
   totalFailed  |-> st.totalFailed + (IF t.status = "failed" THEN 1 ELSE 0),
   totalSkipped |-> st.totalSkipped + (IF t.status = "skipped" THEN 1 ELSE 0)]

RECURSIVE CountTests(_, _)
CountTests(st, ts) ==
  IF ts = <<>> THEN st ELSE CountTests(CountTest(st, ts[1]), Tail(ts))

Statistics(m) == CountTests(ZeroStats, Flat(m))

Locals(recs) == [i \in 1..Len(recs) |-> recs[i].local]

Realms(recs) == [i \in 1..Len(recs) |-> recs[i].realm]

\* the values of customTags["payment_method"], when the record has that key
PaymentMethodsOf(ct) ==
  IF HasKey(ct, KeyPayment)
  THEN ct[CHOOSE i \in 1..Len(ct) : ct[i].key = KeyPayment].value
  ELSE <<>>

RECURSIVE PushPaymentMethods(_, _)
\* allPaymentMethods.push(...t.customTags["payment_method"]) for every record
PushPaymentMethods(acc, recs) ==
  IF recs = <<>> THEN acc
  ELSE PushPaymentMethods(acc \o PaymentMethodsOf(recs[1].customTags), Tail(recs))

\* the characters of the strings compared, in the order of their code units
CodeUnits ==
  <<" ", "/", "0", "1", "2", "3", "4", "5", "6", "7", "8", "9", ":", "@",
    "A", "B", "C", "D", "E", "F", "G", "H", "I", "J", "K", "L", "M",
    "N", "O", "P", "Q", "R", "S", "T", "U", "V", "W", "X", "Y", "Z", "[", "_",
    "a", "b", "c", "d", "e", "f", "g", "h", "i", "j", "k", "l", "m",
    "n", "o", "p", "q", "r", "s", "t", "u", "v", "w", "x", "y", "z">>

CodeUnit(c) == CHOOSE i \in 1..Len(CodeUnits) : CodeUnits[i] = c

RECURSIVE Less(_, _)
\* the order of Array.prototype.sort without a compare function: strings by
\* their code units, a proper prefix first
Less(a, b) ==
  IF b = <<>> THEN FALSE
  ELSE IF a = <<>> THEN TRUE
  ELSE IF a[1] # b[1] THEN CodeUnit(a[1]) < CodeUnit(b[1])
  ELSE Less(Tail(a), Tail(b))

RECURSIVE Insert(_, _)
Insert(x, sorted) ==
  IF sorted = <<>> THEN <<x>>
  ELSE IF Less(x, sorted[1]) THEN <<x>> \o sorted
  ELSE <<sorted[1]>> \o Insert(x, Tail(sorted))

RECURSIVE Sort(_)
\* list.sort()
Sort(list) == IF list = <<>> THEN <<>> ELSE Insert(list[1], Sort(Tail(list)))

\* mutant of allPaymentMethods: the list is made unique and not sorted
allPaymentMethodsUnsorted(m) == FirstSeen(PushPaymentMethods(<<>>, Flat(m)), {})

\* lines 903-928, ending with Array.from(new Set(allPaymentMethods)).sort()
allPaymentMethods(m) == Sort(FirstSeen(PushPaymentMethods(<<>>, Flat(m)), {}))

\* the model of the full report, lines 899-928; a Set keeps the order of
\* the first add of each element
ModelFull(m) ==
  LET st == Statistics(m)
  IN [totalTests |-> st.totalTests, totalPassed |-> st.totalPassed,
      totalFailed |-> st.totalFailed, totalSkipped |-> st.totalSkipped,
      allLocals |-> FirstSeen(Locals(Flat(m)), {}),
      allRealms |-> FirstSeen(Realms(Flat(m)), {}),
      allPaymentMethods |-> allPaymentMethods(m)]

----------------------------------------------------------------------------
(* Histories *)

Call(fn, arg) == [fn |-> fn, arg |-> arg]

Calls(fn) == Cardinality({i \in 1..Len(calls) : calls[i].fn = fn})

Logged(msg) == \E i \in 1..Len(log) : log[i].msg = msg

Thrown(by, at) == [by |-> by, at |-> at]

FailedReportPath == "costum-report/failed-report.html"     \* line 413

FullReportPath == "costum-report/full-test-report.html"    \* line 1107

AttachmentPath == "costum-report/full-test-report.html"    \* line 737

----------------------------------------------------------------------------
(* Initial states *)

NoScript == [file |-> TRUE, post |-> TRUE, verify |-> TRUE, send |-> <<>>]

InitReporter ==
  /\ events = <<>>
  /\ failedTests = <<>>
  /\ tests = <<>>
  /\ stats = ZeroStats
  /\ pc = "running"
  /\ attempt = 0
  /\ retries = DefaultRetries
  /\ calls = <<>>
  /\ log = <<>>
  /\ thrown = <<>>
  /\ script = NoScript
  /\ input = <<>>
  /\ output = <<>>

Init ==
  /\ InitReporter
  /\ WEB_HOOK_URL \in WebhookUrls

----------------------------------------------------------------------------
(* The host delivers a test result to the failure-only reporter *)

OnTestEndFailed(ev) ==
  /\ pc = "running"
  /\ Len(events) < MaxEvents
  /\ events' = Append(events, ev)
  /\ failedTests' = FailedOnTestEnd(failedTests, ev)
  /\ log' = log \o FailedOnTestEndLog(ev)
  /\ UNCHANGED <<tests, stats, WEB_HOOK_URL, pc, attempt, retries, calls,
                 thrown, script, input, output>>

(* The host delivers a test result to the full-run reporter *)

OnTestEndFull(ev) ==
  /\ pc = "running"
  /\ Len(events) < MaxEvents
  /\ events' = Append(events, ev)
  /\ tests' = FullOnTestEnd(tests, ev)
  /\ log' = log \o FullOnTestEndLog(ev)
  /\ UNCHANGED <<failedTests, stats, WEB_HOOK_URL, pc, attempt, retries, calls,
                 thrown, script, input, output>>

(* Full-run reporter: onEnd, lines 892-1110.  It is synchronous; fileOk is *)
(* whether fs.writeFileSync returns.                                       *)

\* the payment_method list without its repeated values
Distinct(ct) ==
  [i \in 1..Len(ct) |->
     IF ct[i].key = KeyPayment
     THEN [ct[i] EXCEPT !.value = FirstSeen(@, {})]
     ELSE ct[i]]

\* mutant of OnEndFull: the payment methods are made unique in the records
\* themselves
OnEndFullDistinctInPlace(fileOk) ==
  /\ pc = "running"
  /\ pc' = "done"
  /\ tests' = [i \in 1..Len(tests) |->
                [tests[i] EXCEPT !.tests =
                   [j \in 1..Len(@) |-> [@[j] EXCEPT !.customTags = Distinct(@)]]]]
  /\ IF tests = <<>>
     THEN UNCHANGED stats
     ELSE stats' = ModelFull(tests)
  /\ UNCHANGED <<events, failedTests, WEB_HOOK_URL, attempt, retries, calls,
                 log, thrown, script, input, output>>

OnEndFull(fileOk) ==
  /\ pc = "running"
  /\ pc' = "done"
  /\ IF tests = <<>>
     THEN /\ log' = Append(log, Line("log", "Aucun test a rapporter", 0))
          /\ UNCHANGED <<stats, calls, thrown>>
     ELSE /\ stats' = ModelFull(tests)
          /\ calls' = Append(calls, Call("writeFileSync", FullReportPath))
          /\ IF fileOk
             THEN /\ log' = Append(log, Line("log", "Rapport HTML complet genere", 0))
                  /\ UNCHANGED thrown
             ELSE /\ thrown' = Append(thrown, Thrown("full", "writeFileSync"))
                  /\ UNCHANGED log
  /\ UNCHANGED <<events, failedTests, tests, WEB_HOOK_URL, attempt, retries, script, input, output>>

----------------------------------------------------------------------------
(* Failure-only reporter: onEnd, lines 117-763.  The function runs from    *)
(* one await to the next; pc names the point where it stands.              *)

RECURSIVE totalDuration(_)
\* .flat().reduce((sum, test) => sum + test.duration, 0), applied to the
\* flattened records
totalDuration(recs) ==
  IF recs = <<>> THEN 0 ELSE recs[1].duration + totalDuration(Tail(recs))

\* Object.keys(test.customTags)
Keys(ct) == {ct[i].key : i \in 1..Len(ct)}

\* mutant of AddKeys: the Set is made anew for every test
RECURSIVE AddKeysOfLast(_, _)
AddKeysOfLast(customTagKeys, recs) ==
  IF recs = <<>> THEN customTagKeys
  ELSE AddKeysOfLast(Keys(recs[1].customTags), Tail(recs))

RECURSIVE AddKeys(_, _)
\* the inner loop, lines 132-134
AddKeys(customTagKeys, recs) ==
  IF recs = <<>> THEN customTagKeys
  ELSE AddKeys(customTagKeys \cup Keys(recs[1].customTags), Tail(recs))

\* lines 129-136
customTagKeysByDescribe(m) ==
  [i \in 1..Len(m) |->
     [describeName |-> m[i].describeName, keys |-> AddKeys({}, m[i].tests)]]

\* the model of the failure report, lines 124-136
ModelFailed(m) ==
  [totalDuration |-> totalDuration(Flat(m)),
   customTagKeysByDescribe |-> customTagKeysByDescribe(m)]

\* mutant of OnEnd: no early return
OnEndNoEarlyReturn ==
  /\ pc = "running"
  /\ pc' = "write"
  /\ stats' = ModelFailed(failedTests)
  /\ UNCHANGED <<events, failedTests, tests, WEB_HOOK_URL, attempt,
                 retries, calls, log, thrown, script, input, output>>

\* lines 118-136: the early return, else the model of the report
OnEnd ==
  /\ pc = "running"
  /\ IF failedTests = <<>>
     THEN /\ log' = Append(log, Line("log", "All tests passed, no report to generate.", 0))
          /\ pc' = "done"
          /\ UNCHANGED stats
     ELSE /\ pc' = "write"
          /\ stats' = ModelFailed(failedTests)
          /\ UNCHANGED log
  /\ UNCHANGED <<events, failedTests, tests, WEB_HOOK_URL, attempt,
                 retries, calls, thrown, script, input, output>>

\* lines 413-415: fs.writeFileSync(reportPath, ...); it is outside any try
WriteReport(fileOk) ==
  /\ pc = "write"
  /\ calls' = Append(calls, Call("writeFileSync", FailedReportPath))
  /\ IF fileOk
     THEN /\ log' = Append(log, Line("log", "Full HTML report generated: failed-report.html", 0))
          /\ pc' = "webhook"
          /\ UNCHANGED thrown
     ELSE /\ thrown' = Append(thrown, Thrown("failed", "writeFileSync"))
          /\ pc' = "done"
          /\ UNCHANGED log
  /\ UNCHANGED <<events, failedTests, tests, stats, WEB_HOOK_URL, attempt,
                 retries, script, input, output>>

\* if (webhookUrl): undefined and "" are falsy
Truthy(url) == url # "undefined" /\ url # ""

\* mutant of Webhook: without a webhook URL onEnd returns after the warning
WebhookSkipsMail ==
  /\ pc = "webhook"
  /\ IF Truthy(WEB_HOOK_URL)
     THEN /\ calls' = Append(calls, Call("axios.post", WEB_HOOK_URL))
          /\ pc' = "post"
          /\ UNCHANGED log
     ELSE /\ log' = Append(log, Line("warn", "TEAMS_WEBHOOK_URL not defined. Teams message not sent.", 0))
          /\ pc' = "done"
          /\ UNCHANGED calls
  /\ UNCHANGED <<events, failedTests, tests, stats, WEB_HOOK_URL, attempt,
                 retries, thrown, script, input, output>>

\* mutant of Webhook: the guard tests webhookUrl !== undefined, so "" is posted to
WebhookPostsToEmpty ==
  /\ pc = "webhook"
  /\ IF WEB_HOOK_URL # "undefined"
     THEN /\ calls' = Append(calls, Call("axios.post", WEB_HOOK_URL))
          /\ pc' = "post"
          /\ UNCHANGED log
     ELSE /\ log' = Append(log, Line("warn", "TEAMS_WEBHOOK_URL not defined. Teams message not sent.", 0))
          /\ pc' = "transport"
          /\ UNCHANGED calls
  /\ UNCHANGED <<events, failedTests, tests, stats, WEB_HOOK_URL, attempt,
                 retries, thrown, script, input, output>>

\* lines 615-616, 694, 703-705: the guard, then the POST or the warning
\* mutant of Webhook: the POST is started and not awaited
WebhookNotAwaited ==
  /\ pc = "webhook"
  /\ IF Truthy(WEB_HOOK_URL)
     THEN /\ calls' = Append(calls, Call("axios.post", WEB_HOOK_URL))
          /\ UNCHANGED log
     ELSE /\ log' = Append(log, Line("warn", "TEAMS_WEBHOOK_URL not defined. Teams message not sent.", 0))
          /\ UNCHANGED calls
  /\ pc' = "transport"
  /\ UNCHANGED <<events, failedTests, tests, stats, WEB_HOOK_URL, attempt,
                 retries, thrown, script, input, output>>

Webhook ==
  /\ pc = "webhook"
  /\ IF Truthy(WEB_HOOK_URL)
     THEN /\ calls' = Append(calls, Call("axios.post", WEB_HOOK_URL))
          /\ pc' = "post"
          /\ UNCHANGED log
     ELSE /\ log' = Append(log, Line("warn", "TEAMS_WEBHOOK_URL not defined. Teams message not sent.", 0))
          /\ pc' = "transport"
          /\ UNCHANGED calls
  /\ UNCHANGED <<events, failedTests, tests, stats, WEB_HOOK_URL, attempt,
                 retries, thrown, script, input, output>>

\* mutant of PostReturns: no try/catch around the POST, the rejection leaves onEnd
PostReturnsUncaught(ok) ==
  /\ pc = "post"
  /\ IF ok
     THEN /\ log' = Append(log, Line("log", "Message sent successfully to Microsoft Teams.", 0))
          /\ pc' = "transport"
          /\ UNCHANGED thrown
     ELSE /\ thrown' = Append(thrown, Thrown("failed", "axios.post"))
          /\ pc' = "done"
          /\ UNCHANGED log
  /\ UNCHANGED <<events, failedTests, tests, stats, WEB_HOOK_URL, attempt,
                 retries, calls, script, input, output>>

\* mutant of PostReturns: a failed POST is repeated once
PostReturnsRepost(ok) ==
  /\ pc = "post"
  /\ log' = Append(log, IF ok
                        THEN Line("log", "Message sent successfully to Microsoft Teams.", 0)
                        ELSE Line("error", "Error sending message to Teams:", 0))
  /\ pc' = IF ~ok /\ Calls("axios.post") < 2 THEN "webhook" ELSE "transport"
  /\ UNCHANGED <<events, failedTests, tests, stats, WEB_HOOK_URL, attempt,
                 retries, calls, thrown, script, input, output>>

\* mutant of PostReturns: the catch block returns, a failed POST ends onEnd
PostReturnsAbort(ok) ==
  /\ pc = "post"
  /\ log' = Append(log, IF ok
                        THEN Line("log", "Message sent successfully to Microsoft Teams.", 0)
                        ELSE Line("error", "Error sending message to Teams:", 0))
  /\ pc' = IF ok THEN "transport" ELSE "done"
  /\ UNCHANGED <<events, failedTests, tests, stats, WEB_HOOK_URL, attempt,
                 retries, calls, thrown, script, input, output>>

\* lines 693-702: await axios.post(...) returns or rejects inside try/catch
PostReturns(ok) ==
  /\ pc = "post"
  /\ log' = Append(log, IF ok
                        THEN Line("log", "Message sent successfully to Microsoft Teams.", 0)
                        ELSE Line("error", "Error sending message to Teams:", 0))
  /\ pc' = "transport"
  /\ UNCHANGED <<events, failedTests, tests, stats, WEB_HOOK_URL, attempt,
                 retries, calls, thrown, script, input, output>>

\* mutant of CreateTransport: the transporter is used without verification
CreateTransportNoVerify ==
  /\ pc = "transport"
  /\ pc' = "ready"
  /\ UNCHANGED <<events, failedTests, tests, stats, WEB_HOOK_URL, attempt,
                 retries, calls, log, thrown, script, input, output>>

\* lines 708-715: createTransport, then transporter.verify() is called
CreateTransport ==
  /\ pc = "transport"
  /\ calls' = Append(calls, Call("verify", "smtp"))
  /\ pc' = "verify"
  /\ UNCHANGED <<events, failedTests, tests, stats, WEB_HOOK_URL, attempt,
                 retries, log, thrown, script, input, output>>

\* mutant of VerifyReturns: the catch block has no return, the mail is sent anyway
VerifyReturnsNoReturn(ok) ==
  /\ pc = "verify"
  /\ log' = Append(log, IF ok
                        THEN Line("log", "SMTP server connection verified successfully.", 0)
                        ELSE Line("error", "Error verifying SMTP transporter:", 0))
  /\ pc' = "ready"
  /\ UNCHANGED <<events, failedTests, tests, stats, WEB_HOOK_URL, attempt,
                 retries, calls, thrown, script, input, output>>

\* lines 714-725: await transporter.verify() returns or rejects inside try/catch
VerifyReturns(ok) ==
  /\ pc = "verify"
  /\ IF ok
     THEN /\ log' = Append(log, Line("log", "SMTP server connection verified successfully.", 0))
          /\ pc' = "ready"
     ELSE /\ log' = Append(log, Line("error", "Error verifying SMTP transporter:", 0))
          /\ pc' = "done"
  /\ UNCHANGED <<events, failedTests, tests, stats, WEB_HOOK_URL, attempt,
                 retries, calls, thrown, script, input, output>>

\* lines 728-746 and 762: mailOptions, sendEmailWithRetry is entered, the
\* loop starts with attempt = 1 and transporter.sendMail is called
SendEmailWithRetry ==
  /\ pc = "ready"
  /\ attempt' = 1
  /\ IF 1 <= retries
     THEN /\ calls' = Append(calls, Call("sendMail", AttachmentPath))
          /\ pc' = "sendMail"
          /\ UNCHANGED log
     ELSE /\ log' = Append(log, Line("error", "All email sending attempts failed.", 0))
          /\ pc' = "done"
          /\ UNCHANGED calls
  /\ UNCHANGED <<events, failedTests, tests, stats, WEB_HOOK_URL, retries,
                 thrown, script, input, output>>

\* mutant of SendMailReturns: the delay is taken while attempt <= retries, so
\* one attempt more than the budget is made
SendMailReturnsOneMore(ok) ==
  /\ pc = "sendMail"
  /\ IF ok
     THEN /\ log' = Append(log, Line("log", "Email sent successfully.", 0))
          /\ pc' = "done"
          /\ UNCHANGED attempt
          /\ UNCHANGED calls
     ELSE IF attempt <= retries
          THEN /\ log' = Append(log, Line("error", "Attempt failed:", attempt))
               /\ calls' = Append(calls, Call("setTimeout", DefaultDelay))
               /\ pc' = "delay"
               /\ UNCHANGED attempt
          ELSE /\ log' = log \o <<Line("error", "Attempt failed:", attempt),
                                  Line("error", "All email sending attempts failed.", 0)>>
               /\ attempt' = attempt + 1
               /\ pc' = "done"
               /\ UNCHANGED calls
  /\ UNCHANGED <<events, failedTests, tests, stats, WEB_HOOK_URL, retries,
                 thrown, script, input, output>>

\* lines 745-759: await transporter.sendMail(...) returns or rejects
\* mutant of SendMailReturns: the wait is not conditional on attempt < retries
SendMailReturnsAlwaysWaits(ok) ==
  /\ pc = "sendMail"
  /\ IF ok
     THEN /\ log' = Append(log, Line("log", "Email sent successfully.", 0))
          /\ pc' = "done"
          /\ UNCHANGED <<attempt, calls>>
     ELSE /\ calls' = Append(calls, Call("setTimeout", DefaultDelay))
          /\ IF attempt < retries
             THEN /\ log' = Append(log, Line("error", "Attempt failed:", attempt))
                  /\ pc' = "delay"
                  /\ UNCHANGED attempt
             ELSE /\ log' = log \o <<Line("error", "Attempt failed:", attempt),
                                     Line("error", "All email sending attempts failed.", 0)>>
                  /\ attempt' = attempt + 1
                  /\ pc' = "done"
  /\ UNCHANGED <<events, failedTests, tests, stats, WEB_HOOK_URL, retries,
                 thrown, script, input, output>>

SendMailReturns(ok) ==
  /\ pc = "sendMail"
  /\ IF ok
     THEN /\ log' = Append(log, Line("log", "Email sent successfully.", 0))
          /\ pc' = "done"
          /\ UNCHANGED attempt
          /\ UNCHANGED calls
     ELSE IF attempt < retries
          THEN /\ log' = Append(log, Line("error", "Attempt failed:", attempt))
               /\ calls' = Append(calls, Call("setTimeout", DefaultDelay))
               /\ pc' = "delay"
               /\ UNCHANGED attempt
          ELSE /\ log' = log \o <<Line("error", "Attempt failed:", attempt),
                                  Line("error", "All email sending attempts failed.", 0)>>
               /\ attempt' = attempt + 1
               /\ pc' = "done"
               /\ UNCHANGED calls
  /\ UNCHANGED <<events, failedTests, tests, stats, WEB_HOOK_URL, retries,
                 thrown, script, input, output>>

\* line 756 then 744, 746: the timer fires, attempt++, sendMail is called again
DelayElapsed ==
  /\ pc = "delay"
  /\ attempt' = attempt + 1
  /\ calls' = Append(calls, Call("sendMail", AttachmentPath))
  /\ pc' = "sendMail"
  /\ UNCHANGED <<events, failedTests, tests, stats, WEB_HOOK_URL, retries,
                 log, thrown, script, input, output>>

----------------------------------------------------------------------------
(* A run of the failure-only reporter; the transports answer freely *)

Next ==
  \/ \E ev \in TestEvents : OnTestEndFailed(ev)
  \/ OnEnd
  \/ \E fileOk \in BOOLEAN : WriteReport(fileOk)
  \/ Webhook
  \/ \E ok \in BOOLEAN : PostReturns(ok)
  \/ CreateTransport
  \/ \E ok \in BOOLEAN : VerifyReturns(ok)
  \/ SendEmailWithRetry
  \/ \E ok \in BOOLEAN : SendMailReturns(ok)
  \/ DelayElapsed

Spec == Init /\ [][Next]_vars

(* A run of the full-run reporter, which reads no webhook URL *)

InitFull ==
  /\ InitReporter
  /\ WEB_HOOK_URL = "undefined"

NextFull ==
  \/ \E ev \in TestEvents : OnTestEndFull(ev)
  \/ \E fileOk \in BOOLEAN : OnEndFull(fileOk)

SpecFull == InitFull /\ [][NextFull]_vars

----------------------------------------------------------------------------
(* The same onEnd against scripted transports: the outcome of the file     *)
(* write, of the POST, of verify and of the k-th sendMail call is fixed    *)
(* beforehand in script, as a test double would.                           *)

\* outcomes of the first n sendMail calls
Plans(n) == [1..n -> BOOLEAN]

Scripts ==
  [file : BOOLEAN, post : BOOLEAN, verify : BOOLEAN, send : Plans(DefaultRetries + 1)]

InitScripted ==
  /\ \E ev \in TestEvents :
       /\ events = <<ev>>
       /\ failedTests = FailedOnTestEnd(<<>>, ev)
       /\ log = FailedOnTestEndLog(ev)
  /\ tests = <<>>
  /\ stats = ZeroStats
  /\ WEB_HOOK_URL \in WebhookUrls
  /\ pc = "running"
  /\ attempt = 0
  /\ retries = DefaultRetries
  /\ calls = <<>>
  /\ thrown = <<>>
  /\ script \in Scripts
  /\ input = <<>>
  /\ output = <<>>

NextScripted ==
  \/ OnEnd
  \/ WriteReport(script.file)
  \/ Webhook
  \/ PostReturns(script.post)
  \/ CreateTransport
  \/ VerifyReturns(script.verify)
  \/ SendEmailWithRetry
  \/ SendMailReturns(script.send[attempt])
  \/ DelayElapsed

SpecScripted == InitScripted /\ [][NextScripted]_vars

(* sendEmailWithRetry alone, lines 743-760, for a budget of 1..MaxRetries  *)
(* attempts and every scripted sequence of sendMail outcomes.  It starts   *)
(* where onEnd calls it: one record stored, the report written, no webhook *)
(* configured, the transporter verified.                                   *)

InitRetry ==
  /\ \E ev \in {e \in TestEvents : e.title = "t1"} :
       /\ events = <<ev>>
       /\ failedTests = FailedOnTestEnd(<<>>, ev)
  /\ tests = <<>>
  /\ stats = ModelFailed(failedTests)
  /\ WEB_HOOK_URL = "undefined"
  /\ pc = "ready"
  /\ attempt = 0
  /\ retries \in 1..MaxRetries
  /\ calls = <<Call("writeFileSync", FailedReportPath), Call("verify", "smtp")>>
  /\ log = <<Line("log", "Full HTML report generated: failed-report.html", 0),
             Line("warn", "TEAMS_WEBHOOK_URL not defined. Teams message not sent.", 0),
             Line("log", "SMTP server connection verified successfully.", 0)>>
  /\ thrown = <<>>
  /\ \E plan \in Plans(MaxRetries + 1) :
       script = [file |-> TRUE, post |-> TRUE, verify |-> TRUE, send |-> plan]
  /\ input = <<>>
  /\ output = <<>>

NextRetry ==
  \/ SendEmailWithRetry
  \/ SendMailReturns(script.send[attempt])
  \/ DelayElapsed

SpecRetry == InitRetry /\ [][NextRetry]_vars

(* A run of the failure-only reporter in which every awaited call returns  *)
(* and the event loop resumes onEnd: the continuations of the mail channel *)
(* are taken when they are enabled.                                        *)

FairSpec ==
  /\ Spec
  /\ WF_vars(\E ok \in BOOLEAN : VerifyReturns(ok))
  /\ WF_vars(SendEmailWithRetry)
  /\ WF_vars(\E ok \in BOOLEAN : SendMailReturns(ok))
  /\ WF_vars(DelayElapsed)

----------------------------------------------------------------------------
(* The state of the mail channel, read off the position of onEnd *)

MsgAllFailed == "All email sending attempts failed."

MsgSent == "Email sent successfully."

MsgVerifyError == "Error verifying SMTP transporter:"

MsgTeamsError == "Error sending message to Teams:"

MsgTeamsSent == "Message sent successfully to Microsoft Teams."

MsgTeamsSkipped == "TEAMS_WEBHOOK_URL not defined. Teams message not sent."

MailState ==
  CASE pc \in {"running", "write", "webhook", "post", "transport"} -> "disconnected"
    [] pc = "verify" -> "verifying"
    [] pc = "ready" -> "ready"
    [] pc = "sendMail" -> "sending"
    [] pc = "delay" -> "retrying"
    [] pc = "done" -> IF Calls("verify") = 0 THEN "disconnected"
                      ELSE IF Logged(MsgSent) THEN "sent" ELSE "abandoned"

\* position of the first success in a scripted sequence of outcomes, one past
\* its end when there is none
FirstSuccess(plan) ==
  IF \E i \in 1..Len(plan) : plan[i]
  THEN CHOOSE i \in 1..Len(plan) : plan[i] /\ \A j \in 1..(i - 1) : ~plan[j]
  ELSE Len(plan) + 1

ExpectedAttempts(n, plan) == Min(n, FirstSuccess(plan))

Transports == {"axios.post", "verify", "sendMail"}

----------------------------------------------------------------------------
(* C1: with a budget of N >= 1 attempts and any scripted sequence of       *)
(* sendMail outcomes, sendEmailWithRetry never makes more than             *)
(* min(N, position of the first success) attempts, has made exactly that   *)
(* many when it returns, and logs the terminal failure exactly when it has *)
(* returned and the first N outcomes are all failures; fail, fail, fail,   *)
(* success gives 3 attempts and the terminal failure for N = 3, and a      *)
(* success on attempt 4 for N = 4.                                         *)
C1_RetryBudget ==
  /\ Calls("sendMail") <= ExpectedAttempts(retries, script.send)
  /\ pc = "done" => Calls("sendMail") = ExpectedAttempts(retries, script.send)
  /\ Logged(MsgAllFailed) <=> (pc = "done" /\ \A i \in 1..retries : ~script.send[i])
  /\ Logged(MsgSent) <=> (pc = "done" /\ \E i \in 1..retries : script.send[i])
  /\ (pc = "done" /\ SubSeq(script.send, 1, 4) = <<FALSE, FALSE, FALSE, TRUE>>) =>
       /\ retries = 3 => Calls("sendMail") = 3 /\ Logged(MsgAllFailed)
       /\ retries = 4 => Calls("sendMail") = 4 /\ Logged(MsgSent)

C1_Witness ==
  /\ pc = "done"
  /\ retries = 3
  /\ SubSeq(script.send, 1, 4) = <<FALSE, FALSE, FALSE, TRUE>>
  /\ Calls("sendMail") = 3
  /\ Logged(MsgAllFailed)

(* C2: in the failure-only reporter every failed event delivered so far is *)
(* represented by exactly one record: no suite name has two groups, every  *)
(* failed event's suite has a group, and a group holds as many records as  *)
(* there are failed events with that suite name.                           *)
C2_OneRecordPerEvent ==
  /\ \A i, j \in 1..Len(failedTests) :
       failedTests[i].describeName = failedTests[j].describeName => i = j
  /\ \A k \in 1..Len(events) :
       events[k].status = "failed" => Has(failedTests, DescribeNameFailed(events[k]))
  /\ \A i \in 1..Len(failedTests) :
       Len(failedTests[i].tests) =
         Cardinality({k \in 1..Len(events) :
                        /\ events[k].status = "failed"
                        /\ DescribeNameFailed(events[k]) = failedTests[i].describeName})

(* C3: when the full-run reporter's onEnd has computed the statistics,     *)
(* totalPassed + totalFailed + totalSkipped = totalTests, and totalTests   *)
(* is the number of events ingested.                                       *)
C3_StatusCountsAddUp ==
  (pc = "done" /\ tests # <<>>) =>
    /\ stats.totalPassed + stats.totalFailed + stats.totalSkipped = stats.totalTests
    /\ stats.totalTests = Len(events)

(* C4: whatever the POST, verify and each sendMail answer, no exception of *)
(* a transport leaves the failure-only onEnd, an onEnd that returned early *)
(* or wrote its report ends without any exception, and onEnd stops nowhere *)
(* but at its return.                                                      *)
C4_NoTransportFailureEscapes ==
  /\ \A i \in 1..Len(thrown) : thrown[i].at \notin Transports
  /\ (pc = "done" /\ (failedTests = <<>> \/ script.file)) => thrown = <<>>
  /\ pc # "done" => ENABLED NextScripted

C4_Witness ==
  /\ pc = "done"
  /\ Calls("axios.post") = 1 /\ ~script.post
  /\ Calls("sendMail") = DefaultRetries /\ Logged(MsgAllFailed)
  /\ thrown = <<>>

(* C5: when verify is scripted to fail, it is called at most once, the     *)
(* failure is logged once it has returned, and sendMail is never called.   *)
C5_VerifyFailureAborts ==
  ~script.verify =>
    /\ Calls("verify") <= 1
    /\ Calls("sendMail") = 0
    /\ pc \notin {"ready", "sendMail", "delay"}
    /\ (Calls("verify") = 1 /\ pc # "verify") => (pc = "done" /\ Logged(MsgVerifyError))

C5_Witness ==
  /\ ~script.verify
  /\ pc = "done"
  /\ Calls("verify") = 1
  /\ Logged(MsgVerifyError)
  /\ Calls("sendMail") = 0

(* C6: at most one webhook POST is made in a run; once it has returned, a  *)
(* failed POST has been logged as an error and a successful one as sent.   *)
C6_AtMostOnePost ==
  /\ Calls("axios.post") <= 1
  /\ (Calls("axios.post") = 1 /\ pc # "post") =>
       IF script.post THEN Logged(MsgTeamsSent) /\ ~Logged(MsgTeamsError)
                      ELSE Logged(MsgTeamsError) /\ ~Logged(MsgTeamsSent)

C6_Witness ==
  /\ pc = "done"
  /\ Calls("axios.post") = 1
  /\ ~script.post
  /\ Logged(MsgTeamsError)

\* what the mail channel does as a function of the stored records and of the
\* scripted outcomes of the file write, verify and sendMail alone
MailStarts == failedTests # <<>> /\ script.file

ExpectedVerifyCalls == IF MailStarts THEN 1 ELSE 0

ExpectedSendCalls ==
  IF MailStarts /\ script.verify THEN ExpectedAttempts(retries, script.send) ELSE 0

ExpectedMail ==
  IF ~MailStarts THEN "disconnected"
  ELSE IF script.verify /\ \E i \in 1..retries : script.send[i] THEN "sent"
  ELSE "abandoned"

(* C7: when onEnd has returned, whether verify was called, the number of   *)
(* sendMail attempts and the final state of the mail channel are the       *)
(* values fixed by the stored records and the verify/sendMail outcomes,    *)
(* whether the POST succeeded, failed or was skipped; no POST failure      *)
(* leaves onEnd as an exception; and the step that follows the return of   *)
(* the POST, or the skipped POST, is the call of verify, with no further   *)
(* POST and no wait in between.                                            *)
C7_MailIndependentOfWebhook ==
  /\ [](pc = "done" =>
          /\ Calls("verify") = ExpectedVerifyCalls
          /\ Calls("sendMail") = ExpectedSendCalls
          /\ MailState = ExpectedMail)
  /\ [](\A i \in 1..Len(thrown) : thrown[i].at # "axios.post")
  /\ [][pc = "post" => (pc' = "transport" /\ calls' = calls)]_vars
  /\ [][(pc = "webhook" /\ ~Truthy(WEB_HOOK_URL)) => (pc' = "transport" /\ calls' = calls)]_vars
  /\ [][pc = "transport" => (pc' = "verify" /\ calls' = Append(calls, Call("verify", "smtp")))]_vars

C7_Witness ==
  /\ pc = "done"
  /\ Calls("axios.post") = 1 /\ ~script.post /\ Logged(MsgTeamsError)
  /\ Calls("verify") = 1
  /\ Calls("sendMail") = 2
  /\ MailState = "sent"

MailTransitions ==
  { <<"disconnected", "verifying">>, <<"verifying", "ready">>,
    <<"verifying", "abandoned">>, <<"ready", "sending">>,
    <<"sending", "sent">>, <<"sending", "retrying">>,
    <<"retrying", "sending">>, <<"sending", "abandoned">> }

MailTerminal == {"sent", "abandoned"}

(* C10: the mail channel changes state only along disconnected ->          *)
(* verifying -> ready -> sending (-> retrying -> sending)* -> sent or      *)
(* abandoned, abandoned being entered from verifying or from sending only; *)
(* once verify has been called the channel eventually is sent or           *)
(* abandoned; it is abandoned only after a logged verification failure or  *)
(* a logged exhaustion of the budget; and in a terminal state no further   *)
(* call is made.                                                           *)
C10_MailChannel ==
  /\ [][MailState' # MailState => (<<MailState, MailState'>> \in MailTransitions)]_vars
  /\ (MailState = "verifying") ~> (MailState \in MailTerminal)
  /\ [](MailState = "abandoned" => (Logged(MsgVerifyError) \/ Logged(MsgAllFailed)))
  /\ [](MailState = "sent" => ~Logged(MsgVerifyError) /\ ~Logged(MsgAllFailed))
  /\ [][(MailState \in MailTerminal) => (calls' = calls)]_vars

C10_Witness ==
  /\ MailState = "abandoned"
  /\ Calls("sendMail") = DefaultRetries
  /\ Logged(MsgAllFailed)

----------------------------------------------------------------------------
(* Events and records compared *)

\* the number of onTestEnd calls made for the test of that title
Deliveries(title) == Cardinality({k \in 1..Len(events) : events[k].title = title})

\* those of them whose result has the status failed
FailedDeliveries(title) ==
  Cardinality({k \in 1..Len(events) :
                 events[k].title = title /\ events[k].status = "failed"})

\* the records of Map m, all groups together, that carry the given title
Titled(m, title) == SelectSeq(Flat(m), LAMBDA r : r.title = title)

LastOf(s) == s[Len(s)]

\* the names of the groups of Map m, in the order of the Map
GroupNames(m) == [i \in 1..Len(m) |-> m[i].describeName]

Titles(recs) == [i \in 1..Len(recs) |-> recs[i].title]

IsPrefix(s, t) == Len(s) <= Len(t) /\ SubSeq(t, 1, Len(s)) = s

(* C11: in the failure-only reporter a failed event with two or more       *)
(* errors has one record per delivery, and each of its records has the     *)
(* rawError, expected and actual of the last error of the event.           *)
C11_OneRecordFromLastError ==
  \A k \in 1..Len(events) :
    (events[k].status = "failed" /\ Len(events[k].errors) >= 2) =>
      LET ev == events[k]
          last == MessageOf(LastOf(ev.errors))
          recs == Titled(failedTests, ev.title)
      IN /\ Len(recs) = Deliveries(ev.title)
         /\ \A i \in 1..Len(recs) :
              /\ recs[i].rawError = stripAnsiCodes(last)
              /\ recs[i].expected = ExpectedOf(last)
              /\ recs[i].actual = ActualOf(last)

(* C11 in the full-run reporter, where it holds: one record per delivery,  *)
(* with the error fields of the last error.                                *)
C11_FullRunLastError ==
  \A k \in 1..Len(events) :
    (events[k].status = "failed" /\ Len(events[k].errors) >= 2) =>
      LET ev == events[k]
          last == MessageOf(LastOf(ev.errors))
          recs == Titled(tests, ev.title)
      IN /\ Len(recs) = Deliveries(ev.title)
         /\ \A i \in 1..Len(recs) :
              /\ recs[i].rawError = Some(stripAnsiCodes(last))
              /\ recs[i].expected = Some(ExpectedOf(last))
              /\ recs[i].actual = Some(ActualOf(last))

(* C12: the full-run reporter lists its groups in the order in which their *)
(* suite names first occurred among the events, and the records of a group *)
(* are those of the events of that suite, in the order of delivery.        *)
C12_FirstSeenOrder ==
  /\ GroupNames(tests) =
       FirstSeen([k \in 1..Len(events) |-> DescribeNameFull(events[k])], {})
  /\ \A i \in 1..Len(tests) :
       Titles(tests[i].tests) =
         Titles(SelectSeq(events,
                  LAMBDA e : DescribeNameFull(e) = tests[i].describeName))

C12_Witness ==
  /\ Len(events) = 3
  /\ GroupNames(tests) = <<"Login", "Cart">>
  /\ DescribeNameFull(events[3]) = "Login"
  /\ Len(tests[1].tests) = 2

\* the events that store a record in the failure-only reporter
Storing == SelectSeq(events, LAMBDA e : e.status = "failed" /\ e.errors # <<>>)

(* C12 in the failure-only reporter: the groups are in the order in which  *)
(* their suite names first stored a record, and the records of a group     *)
(* follow the order of delivery of their events.                           *)
C12_FirstStoredOrder ==
  /\ GroupNames(failedTests) =
       FirstSeen([k \in 1..Len(Storing) |-> DescribeNameFailed(Storing[k])], {})
  /\ \A i \in 1..Len(failedTests) :
       FirstSeen(Titles(failedTests[i].tests), {}) =
         FirstSeen(Titles(SelectSeq(Storing,
                     LAMBDA e : DescribeNameFailed(e) = failedTests[i].describeName)), {})

\* Map new holds every group of Map old at its place, with the records of
\* old as a prefix of its records
AppendOnly(old, new) ==
  /\ Len(old) <= Len(new)
  /\ \A i \in 1..Len(old) :
       /\ new[i].describeName = old[i].describeName
       /\ IsPrefix(old[i].tests, new[i].tests)

(* C13: every step of a run, onTestEnd and each step of onEnd alike, keeps *)
(* every group of either aggregator at its place with its records          *)
(* unchanged, and at most appends records or groups.                       *)
C13_AppendOnly ==
  [][AppendOnly(failedTests, failedTests') /\ AppendOnly(tests, tests')]_vars

C13_Witness ==
  /\ pc = "done"
  /\ Calls("sendMail") >= 1
  /\ Len(failedTests) = 2
  /\ Len(failedTests[1].tests) >= 2

----------------------------------------------------------------------------
(* extractDataFromTags on its own: any list of up to MaxTags tags *)

MaxTags == 4

TagAlphabet ==
  {TagLocalFr, TagLocaleDe, TagRealmEu, TagPaymentCb, TagPaymentPaypal,
   TagEnvQa, TagEnvProd, TagEnvAB, TagSmoke, TagLocalNA, TagNoAt}

TagLists == UNION {[1..n -> TagAlphabet] : n \in 0..MaxTags}

TagsTitle == "t1"

InitTags ==
  /\ events = <<>>
  /\ failedTests = <<>>
  /\ tests = <<>>
  /\ stats = ZeroStats
  /\ WEB_HOOK_URL = "undefined"
  /\ pc = "call"
  /\ attempt = 0
  /\ retries = DefaultRetries
  /\ calls = <<>>
  /\ log = <<>>
  /\ thrown = <<>>
  /\ script = NoScript
  /\ input \in TagLists
  /\ output = <<>>

\* extractDataFromTags(tags, testTitle), lines 22-54, with its console.warn
ExtractDataFromTags ==
  /\ pc = "call"
  /\ output' = extractDataFromTags(input)
  /\ log' = IF MissingData(extractDataFromTags(input))
            THEN Append(log, LineAbout("warn", MsgMissingData, TagsTitle))
            ELSE log
  /\ pc' = "return"
  /\ UNCHANGED <<events, failedTests, tests, stats, WEB_HOOK_URL, attempt,
                 retries, calls, thrown, script, input>>

NextTags == ExtractDataFromTags

SpecTags == InitTags /\ [][NextTags]_vars

\* the position of the property key in customTags, 0 when it is absent
ValueOf(ct, key) ==
  IF HasKey(ct, key) THEN (CHOOSE i \in 1..Len(ct) : ct[i].key = key) ELSE 0

PaymentOf(ct) ==
  IF HasKey(ct, KeyPayment) THEN ct[ValueOf(ct, KeyPayment)].value ELSE <<>>

\* the text of each @payment_method: tag after its prefix, in the order of the tags
PaymentValues(tags) ==
  LET pay == SelectSeq(tags, LAMBDA t : StartsWith(t, PrefixPayment))
  IN [i \in 1..Len(pay) |-> Drop(pay[i], Len(PrefixPayment))]

ExampleTags == <<TagLocalFr, TagRealmEu, TagPaymentCb, TagPaymentPaypal>>

(* C14: extractDataFromTags returns under payment_method the values of all *)
(* @payment_method: tags of its input, in their order and with duplicates; *)
(* the tags @local:fr, @realm:eu, @payment_method:cb and                   *)
(* @payment_method:paypal give local fr, realm eu and [cb, paypal].        *)
C14_PaymentMethodsInOrder ==
  pc = "return" =>
    /\ PaymentOf(output.customTags) = PaymentValues(input)
    /\ HasKey(output.customTags, KeyPayment) <=> PaymentValues(input) # <<>>
    /\ input = ExampleTags =>
         /\ output.local = <<"f", "r">>
         /\ output.realm = <<"e", "u">>
         /\ PaymentOf(output.customTags) = <<<<"c", "b">>, <<"p", "a", "y", "p", "a", "l">>>>

C14_Witness ==
  /\ pc = "return"
  /\ input = <<TagPaymentCb, TagPaymentPaypal, TagLocalFr, TagPaymentCb>>
  /\ Len(PaymentOf(output.customTags)) = 3

\* a tag of the last branch of the loop, line 43
IsGeneric(tag) ==
  /\ ~StartsWith(tag, PrefixLocal)
  /\ ~StartsWith(tag, PrefixLocale)
  /\ ~StartsWith(tag, PrefixRealm)
  /\ ~StartsWith(tag, PrefixPayment)
  /\ StartsWith(tag, <<"@">>)
  /\ Includes(tag, ":")

KeyOf(tag) == FirstPiece(Tail(tag))

\* the value that customTags holds under the key of a generic tag
GenericOf(ct, tag) == ct[ValueOf(ct, KeyOf(tag))].value

(* C15: of several generic @key:value tags with one key the last one gives *)
(* the value of that key, while every @payment_method: tag adds its value  *)
(* after those of the tags before it.                                      *)
C15_LastWriteWins ==
  pc = "return" =>
    /\ \A i \in 1..Len(input) :
         (/\ IsGeneric(input[i])
          /\ \A j \in (i+1)..Len(input) :
               IsGeneric(input[j]) => KeyOf(input[j]) # KeyOf(input[i]))
         => /\ HasKey(output.customTags, KeyOf(input[i]))
            /\ GenericOf(output.customTags, input[i]) =
                 GenericOf(extractDataFromTags(<<input[i]>>).customTags, input[i])
    /\ \A k \in 0..Len(input) :
         IsPrefix(PaymentOf(extractDataFromTags(SubSeq(input, 1, k)).customTags),
                  PaymentOf(output.customTags))

C15_Witness ==
  /\ pc = "return"
  /\ input = <<TagEnvQa, TagPaymentCb, TagEnvProd, TagPaymentPaypal>>
  /\ GenericOf(output.customTags, TagEnvQa) = <<<<"p", "r", "o", "d">>>>

----------------------------------------------------------------------------
(* Events without tags *)

\* the console.warn lines of extractDataFromTags about the test of that title
Warnings(title) ==
  SelectSeq(log, LAMBDA l : l.level = "warn" /\ l.msg = MsgMissingData /\ l.about = title)

(* C16: in the full-run reporter an event with an empty tag list is        *)
(* recorded with the one placeholder tag, local and realm "N/A" and no     *)
(* custom tag, and the missing-data warning is written once per delivery   *)
(* of that event.                                                          *)
C16_NoTagsPlaceholder ==
  \A k \in 1..Len(events) :
    events[k].tags = <<>> =>
      LET recs == Titled(tests, events[k].title)
      IN /\ Len(recs) = Deliveries(events[k].title)
         /\ \A i \in 1..Len(recs) :
              /\ recs[i].tags = <<<<"A", "u", "c", "u", "n", " ", "t", "a", "g">>>>
              /\ recs[i].local = <<"N", "/", "A">>
              /\ recs[i].realm = <<"N", "/", "A">>
              /\ recs[i].customTags = <<>>
         /\ Len(Warnings(events[k].title)) = Deliveries(events[k].title)

C16_Witness ==
  \E k \in 1..Len(events) :
    /\ events[k].tags = <<>>
    /\ events[k].status = "skipped"
    /\ Len(Titled(tests, events[k].title)) = 1
    /\ Len(Warnings(events[k].title)) = 1

(* C16 in the failure-only reporter, which ingests failed events only: the *)
(* records of a failed event without tags have the placeholder tag "No     *)
(* tags" and the sentinels, and each failed delivery warns once.           *)
C16_FailedNoTagsPlaceholder ==
  \A k \in 1..Len(events) :
    events[k].tags = <<>> =>
      LET recs == Titled(failedTests, events[k].title)
      IN /\ \A i \in 1..Len(recs) :
              /\ recs[i].tags = <<<<"N", "o", " ", "t", "a", "g", "s">>>>
              /\ recs[i].local = <<"N", "/", "A">>
              /\ recs[i].realm = <<"N", "/", "A">>
              /\ recs[i].customTags = <<>>
         /\ Len(Warnings(events[k].title)) = FailedDeliveries(events[k].title)

----------------------------------------------------------------------------
(* The extraction of one error message on its own: any message made of up  *)
(* to MaxFrags fragments                                                   *)

MaxFrags == 4

FragExpected == <<"E", "x", "p", "e", "c", "t", "e", "d", ":">>

FragReceived == <<"R", "e", "c", "e", "i", "v", "e", "d", ":">>

FragGreen == <<"ESC", "[", "3", "2", "m">>

Fragments == {FragExpected, FragReceived, FragGreen, <<" ">>, <<"5">>, <<"3">>, <<"\n">>}

RECURSIVE Concat(_)
Concat(frags) == IF frags = <<>> THEN <<>> ELSE frags[1] \o Concat(Tail(frags))

Messages == {Concat(f) : f \in UNION {[1..n -> Fragments] : n \in 0..MaxFrags}}

InitExtract ==
  /\ events = <<>>
  /\ failedTests = <<>>
  /\ tests = <<>>
  /\ stats = ZeroStats
  /\ WEB_HOOK_URL = "undefined"
  /\ pc = "call"
  /\ attempt = 0
  /\ retries = DefaultRetries
  /\ calls = <<>>
  /\ log = <<>>
  /\ thrown = <<>>
  /\ script = NoScript
  /\ input \in Messages
  /\ output = <<>>

\* the body of the error loop for one message raw, lines 91-98 and 873-884
ExtractFromMessage ==
  /\ pc = "call"
  /\ output' = [rawError |-> stripAnsiCodes(input),
                expected |-> ExpectedOf(input),
                actual |-> ActualOf(input)]
  /\ pc' = "return"
  /\ UNCHANGED <<events, failedTests, tests, stats, WEB_HOOK_URL, attempt,
                 retries, calls, log, thrown, script, input>>

NextExtract == ExtractFromMessage

SpecExtract == InitExtract /\ [][NextExtract]_vars

\* a value without white space at either end
Trimmed(v) == v = <<>> \/ (v[1] \notin WhiteSpace /\ v[Len(v)] \notin WhiteSpace)

(* C17: the expected and actual lists of a message are the trimmed         *)
(* captures of the two patterns on the message without its escape          *)
(* sequences: the raw message and the stripped message give the same       *)
(* lists, and no value begins or ends with white space.                    *)
C17_ExtractionAfterStripping ==
  pc = "return" =>
    /\ output.expected = ExpectedOf(stripAnsiCodes(input))
    /\ output.actual = ActualOf(stripAnsiCodes(input))
    /\ \A i \in 1..Len(output.expected) : Trimmed(output.expected[i])
    /\ \A i \in 1..Len(output.actual) : Trimmed(output.actual[i])

(* C17 on messages whose escape sequences do not touch the white space     *)
(* around a value, where it holds: "Expected: 5" and "Received: 3" on two  *)
(* lines give [5] and [3].                                                 *)
C17_PlainMessage ==
  (pc = "return" /\ stripAnsiCodes(input) = input) =>
    /\ \A i \in 1..Len(output.expected) : Trimmed(output.expected[i])
    /\ \A i \in 1..Len(output.actual) : Trimmed(output.actual[i])
    /\ input = FragExpected \o <<" ", "5", "\n">> \o FragReceived \o <<" ", "3">>
         => output.expected = <<<<"5">>>> /\ output.actual = <<<<"3">>>>

----------------------------------------------------------------------------
(* The end of the run and the aggregators *)

(* C18: onEnd of the full-run reporter leaves every group and every record *)
(* of either aggregator as it was, payment_method lists included, and the  *)
(* model it has computed is the model of the aggregator it leaves behind,  *)
(* which a second run would compute again.                                 *)
C18_OnEndKeepsAggregator ==
  [][(pc = "running" /\ pc' = "done") =>
       /\ tests' = tests
       /\ failedTests' = failedTests
       /\ (tests # <<>>) => (stats' = ModelFull(tests'))]_vars

C18_Witness ==
  /\ pc = "done"
  /\ Len(tests) = 2
  /\ stats.totalTests = 3
  /\ stats.allPaymentMethods = <<<<"c", "b">>, <<"p", "a", "y", "p", "a", "l">>>>
  /\ \E i \in 1..Len(Flat(tests)) :
       Len(PaymentOf(Flat(tests)[i].customTags)) = 2

(* C18 in the failure-only reporter: from onEnd on, through the report,    *)
(* the webhook and the mail, the aggregator stays as it was and the model  *)
(* is the one of that aggregator.                                          *)
C18_FailedOnEndKeepsAggregator ==
  [][(pc' # "running") =>
       /\ failedTests' = failedTests
       /\ tests' = tests
       /\ (failedTests # <<>>) => (stats' = ModelFailed(failedTests'))]_vars

\* the custom-tag keys of the records of the group named name in Map m
KeyUnion(m, name) ==
  UNION {Keys(GetOrEmpty(m, name)[j].customTags) : j \in 1..Len(GetOrEmpty(m, name))}

\* customTagKeysByDescribe[describeName] || []
KeysByDescribe(byDescribe, name) ==
  UNION {byDescribe[i].keys : i \in {n \in 1..Len(byDescribe) : byDescribe[n].describeName = name}}

(* C19: the custom-tag keys that onEnd computes for a suite are the union  *)
(* of the customTags keys of the records of that suite, and no onTestEnd   *)
(* takes a key away from the keys of a suite.                              *)
C19_KeyUnionGrows ==
  [][/\ (pc = "running" /\ pc' = "write") =>
          /\ Len(stats'.customTagKeysByDescribe) = Len(failedTests)
          /\ \A i \in 1..Len(failedTests) :
               KeysByDescribe(stats'.customTagKeysByDescribe, failedTests[i].describeName)
                 = KeyUnion(failedTests, failedTests[i].describeName)
     /\ \A i \in 1..Len(failedTests) :
          KeysByDescribe(customTagKeysByDescribe(failedTests), failedTests[i].describeName)
            \subseteq KeysByDescribe(customTagKeysByDescribe(failedTests'),
                                     failedTests[i].describeName)]_vars

C19_Witness ==
  /\ pc = "write"
  /\ Len(events) = 2
  /\ events[1].title = "t1"
  /\ events[2].title = "t2"
  /\ KeysByDescribe(stats.customTagKeysByDescribe, "Login") =
       {KeyPayment, <<"e", "n", "v">>}

(* C20: in the full-run reporter a record whose status is not failed has   *)
(* no rawError, no expected list and no actual list, whatever the error    *)
(* list of its event holds.                                                *)
C20_ErrorFieldsOnlyWhenFailed ==
  \A i \in 1..Len(Flat(tests)) :
    Flat(tests)[i].status # "failed" =>
      /\ Flat(tests)[i].rawError = None
      /\ Flat(tests)[i].expected = None
      /\ Flat(tests)[i].actual = None

C20_Witness ==
  \E k \in 1..Len(events) :
    /\ events[k].status = "timedOut"
    /\ events[k].errors # <<>>
    /\ \E i \in 1..Len(Flat(tests)) :
         /\ Flat(tests)[i].title = events[k].title
         /\ Flat(tests)[i].rawError = None

----------------------------------------------------------------------------
(* The shape of customTags *)

(* C21: in what extractDataFromTags returns, payment_method, when it is    *)
(* there, is a list of one or more strings and every other key holds one   *)
(* string, whatever the tags are.                                          *)
C21_PaymentListOthersScalar ==
  pc = "return" =>
    \A i \in 1..Len(output.customTags) :
      LET e == output.customTags[i]
      IN IF e.key = KeyPayment
         THEN e.array /\ Len(e.value) >= 1
         ELSE ~e.array /\ Len(e.value) = 1

C21_Witness ==
  /\ pc = "return"
  /\ input = <<TagEnvQa, TagPaymentCb, TagEnvProd, TagPaymentCb>>
  /\ Len(output.customTags) = 2
  /\ Len(PaymentOf(output.customTags)) = 2

(* C21 over the records of the full-run reporter.                          *)
C21_RecordsPaymentList ==
  \A r \in 1..Len(Flat(tests)) :
    \A i \in 1..Len(Flat(tests)[r].customTags) :
      LET e == Flat(tests)[r].customTags[i]
      IN IF e.key = KeyPayment
         THEN e.array /\ Len(e.value) >= 1
         ELSE ~e.array /\ Len(e.value) = 1

----------------------------------------------------------------------------
(* The order of the channels *)

\* the positions in calls of the calls of fn
CallsAt(fn) == {i \in 1..Len(calls) : calls[i].fn = fn}

\* the answers of the POST that have been handled
PostOutcomes ==
  Cardinality({i \in 1..Len(log) : log[i].msg \in {MsgTeamsSent, MsgTeamsError}})

MsgReport == "Full HTML report generated: failed-report.html"

(* C22: the report file has been written before a POST is made, and the    *)
(* first mail action, verify, is taken only when the POST has been         *)
(* answered, well or badly, or skipped: no mail call is made while a POST  *)
(* is pending and no POST follows a mail call.                             *)
C22_ChannelsInOrder ==
  /\ \A i \in CallsAt("axios.post") :
       /\ \E j \in CallsAt("writeFileSync") : j < i
       /\ Logged(MsgReport)
  /\ \A i \in CallsAt("verify") \cup CallsAt("sendMail") :
       /\ \A j \in CallsAt("axios.post") : j < i
       /\ \E j \in CallsAt("writeFileSync") : j < i
  /\ (CallsAt("verify") # {}) =>
       /\ PostOutcomes = Calls("axios.post")
       /\ Calls("axios.post") = 1 \/ Logged(MsgTeamsSkipped)
  /\ pc = "post" =>
       /\ PostOutcomes = 0
       /\ Calls("verify") = 0
       /\ Calls("sendMail") = 0

C22_Witness ==
  /\ pc = "done"
  /\ Calls("axios.post") = 1
  /\ Logged(MsgTeamsError)
  /\ Calls("verify") = 1
  /\ Calls("sendMail") = 2

----------------------------------------------------------------------------
(* The waits of sendEmailWithRetry *)

\* the calls that sendEmailWithRetry makes, in order
MailCalls == SelectSeq(calls, LAMBDA c : c.fn \in {"sendMail", "setTimeout"})

MsgAttemptFailed == "Attempt failed:"

\* the attempt numbers of the failures logged, in order
FailedAttempts ==
  LET f == SelectSeq(log, LAMBDA l : l.msg = MsgAttemptFailed)
  IN [i \in 1..Len(f) |-> f[i].attempt]

(* C26: sendEmailWithRetry waits once, for the fixed delay, between two    *)
(* consecutive attempts and not after a success or after the last failed   *)
(* attempt, so that k attempts go with k - 1 waits; the failed attempts    *)
(* are logged with the numbers 1, 2, ... in order.                         *)
C26_OneWaitBetweenAttempts ==
  /\ \A i \in 1..Len(MailCalls) :
       MailCalls[i] = IF i % 2 = 1 THEN Call("sendMail", AttachmentPath)
                      ELSE Call("setTimeout", 1000)
  /\ pc \in {"sendMail", "done"} => Calls("setTimeout") = Calls("sendMail") - 1
  /\ pc = "delay" => Calls("setTimeout") = Calls("sendMail")
  /\ FailedAttempts = [i \in 1..Len(FailedAttempts) |-> i]
  /\ Len(FailedAttempts) =
       IF pc = "sendMail" \/ Logged(MsgSent)
       THEN Calls("sendMail") - 1 ELSE Calls("sendMail")

C26_Witness ==
  /\ pc = "done"
  /\ retries = 3
  /\ Calls("sendMail") = 3
  /\ Calls("setTimeout") = 2
  /\ FailedAttempts = <<1, 2, 3>>
  /\ Logged(MsgAllFailed)

----------------------------------------------------------------------------
(* The warning of extractDataFromTags *)

HasLocalTag(tags) ==
  \E i \in 1..Len(tags) :
    StartsWith(tags[i], PrefixLocal) \/ StartsWith(tags[i], PrefixLocale)

HasRealmTag(tags) == \E i \in 1..Len(tags) : StartsWith(tags[i], PrefixRealm)

(* C23: extractDataFromTags writes its warning, once, exactly when its     *)
(* tags hold no local or locale tag or no realm tag, and writes nothing    *)
(* when both are given by a tag, whatever values the tags give.            *)
C23_WarnsIffTagMissing ==
  pc = "return" =>
    /\ Len(log) = (IF ~HasLocalTag(input) \/ ~HasRealmTag(input) THEN 1 ELSE 0)
    /\ \A i \in 1..Len(log) : log[i] = LineAbout("warn", MsgMissingData, TagsTitle)

(* C23 as the code has it: the warning is written exactly when local or    *)
(* realm is "N/A" in the result, be it for want of a tag or because a tag  *)
(* gives that value; the call changes nothing else.                        *)
C23_WarnsIffSentinel ==
  /\ [](pc = "return" =>
          /\ Len(log) = (IF output.local = <<"N", "/", "A">> \/ output.realm = <<"N", "/", "A">>
                         THEN 1 ELSE 0)
          /\ (~HasLocalTag(input) \/ ~HasRealmTag(input)) => Len(log) = 1)
  /\ [][input' = input /\ calls' = calls /\ thrown' = thrown]_vars

----------------------------------------------------------------------------
(* The payment methods of the summary *)

\* the elements of a list
Range(list) == {list[i] : i \in 1..Len(list)}

(* C24: the payment methods that onEnd of the full-run reporter lists are  *)
(* in ascending order without repetition and are exactly the values found  *)
(* in the payment_method list of some record, while every record keeps its *)
(* own list as its tags gave it, in their order and with their duplicates. *)
C24_SummaryPaymentMethods ==
  (pc = "done" /\ tests # <<>>) =>
    /\ \A i \in 1..(Len(stats.allPaymentMethods) - 1) :
         Less(stats.allPaymentMethods[i], stats.allPaymentMethods[i + 1])
    /\ Range(stats.allPaymentMethods) =
         UNION {Range(PaymentOf(Flat(tests)[r].customTags)) : r \in 1..Len(Flat(tests))}
    /\ \A r \in 1..Len(Flat(tests)) :
         PaymentOf(Flat(tests)[r].customTags) = PaymentValues(Flat(tests)[r].tags)

C24_Witness ==
  /\ pc = "done"
  /\ Len(events) = 2
  /\ events[1].title = "t8"
  /\ events[2].title = "t1"
  /\ stats.allPaymentMethods = <<<<"c", "b">>, <<"p", "a", "y", "p", "a", "l">>>>
  /\ PaymentOf(Flat(tests)[1].customTags) =
       <<<<"p", "a", "y", "p", "a", "l">>, <<"p", "a", "y", "p", "a", "l">>>>

----------------------------------------------------------------------------
(* The status guard of the failure-only reporter *)

(* C25: every record of the failure-only aggregator has the title and the  *)
(* duration of an event delivered with the status failed, and the delivery *)
(* of an event with another status leaves the aggregator as it was.        *)
C25_OnlyFailedStored ==
  /\ [](\A r \in 1..Len(Flat(failedTests)) :
          \E k \in 1..Len(events) :
            /\ events[k].status = "failed"
            /\ events[k].title = Flat(failedTests)[r].title
            /\ events[k].duration = Flat(failedTests)[r].duration)
  /\ [][(Len(events') = Len(events) + 1 /\ LastOf(events').status # "failed")
          => failedTests' = failedTests]_vars

C25_Witness ==
  /\ Len(events) = 3
  /\ events[1].title = "t1"
  /\ events[2].status = "timedOut" /\ events[2].errors # <<>>
  /\ events[3].status = "passed"
  /\ Len(Flat(failedTests)) = 1

(* C27: at every sendMail the path of the attachment is the path of the    *)
(* report file that this onEnd has written.                                *)
C27_AttachmentIsReport ==
  \A i \in CallsAt("sendMail") :
    \E j \in CallsAt("writeFileSync") : j < i /\ calls[j].arg = calls[i].arg

----------------------------------------------------------------------------
(* Tags that are not parsed *)

\* a tag that starts with "@" and holds a colon
WellFormed(tag) == StartsWith(tag, <<"@">>) /\ Includes(tag, ":")

\* the event delivered under the title of a record
EventTitled(title) == events[CHOOSE k \in 1..Len(events) : events[k].title = title]

(* C28: in the full-run reporter the local, realm and customTags of a      *)
(* record are those that the tags of its event give without the tags that  *)
(* lack the "@" or the colon, and the tags of the record are the tags of   *)
(* the event as they came, or the placeholder when there are none.         *)
C28_MalformedTagsIgnored ==
  \A r \in 1..Len(Flat(tests)) :
    LET rec == Flat(tests)[r]
        ev == EventTitled(rec.title)
        data == extractDataFromTags(SelectSeq(ev.tags, WellFormed))
    IN /\ rec.local = data.local
       /\ rec.realm = data.realm
       /\ rec.customTags = data.customTags
       /\ rec.tags = IF ev.tags = <<>>
                     THEN <<<<"A", "u", "c", "u", "n", " ", "t", "a", "g">>>>
                     ELSE ev.tags

C28_Witness ==
  /\ Len(events) = 2
  /\ events[1].tags = <<TagSmoke, TagRealmEu>>
  /\ events[2].tags = <<TagLocalFr, TagNoAt, TagRealmEu, TagEnvProd>>
  /\ Flat(tests)[1].customTags = <<>>
  /\ Flat(tests)[2].local = <<"f", "r">>
  /\ Flat(tests)[2].tags = events[2].tags

(* C28 for extractDataFromTags on its own: the tags without "@" or without *)
(* colon can be left out of any list without changing the result.          *)
C28_ParseWithoutMalformed ==
  pc = "return" => output = extractDataFromTags(SelectSeq(input, WellFormed))

----------------------------------------------------------------------------
(* An empty aggregator at the end of the run *)

MsgAllPassed == "All tests passed, no report to generate."

(* C29: while the failure-only aggregator is empty no outward call is      *)
(* made: an onEnd that finds it empty returns without writing a file,      *)
(* posting to the webhook, verifying the transport or sending a mail.      *)
C29_EmptyAggregatorNoAction ==
  failedTests = <<>> =>
    /\ calls = <<>>
    /\ thrown = <<>>
    /\ pc \in {"running", "done"}
    /\ pc = "done" => Logged(MsgAllPassed)

C29_Witness ==
  /\ pc = "done"
  /\ failedTests = <<>>
  /\ Len(events) = 2
  /\ events[1].status = "failed"
  /\ events[2].status = "passed"
  /\ calls = <<>>

----------------------------------------------------------------------------
(* One record per error *)

RECURSIVE SumErrors(_)
\* the number of error messages of the failed events of a list
SumErrors(evs) ==
  IF evs = <<>> THEN 0
  ELSE (IF evs[1].status = "failed" THEN Len(evs[1].errors) ELSE 0) + SumErrors(Tail(evs))

RECURSIVE SumErrorDurations(_)
\* the durations of the failed events of a list, each taken once per error
SumErrorDurations(evs) ==
  IF evs = <<>> THEN 0
  ELSE (IF evs[1].status = "failed" THEN Len(evs[1].errors) * evs[1].duration ELSE 0)
       + SumErrorDurations(Tail(evs))

RECURSIVE totalFailed(_)
\* Array.from(this.failedTests.values()).reduce((acc, arr) => acc + arr.length, 0)
totalFailed(m) == IF m = <<>> THEN 0 ELSE Len(m[1].tests) + totalFailed(Tail(m))

(* C30: the failure-only reporter holds one record per error message of    *)
(* the failed events: their number, which is the total of failed tests     *)
(* that it reports, is the sum of the lengths of the error lists of the    *)
(* failed events, the k records of an event with k errors have its title   *)
(* and its duration, and the total duration counts the event k times.      *)
C30_OneRecordPerError ==
  /\ Len(Flat(failedTests)) = SumErrors(events)
  /\ totalFailed(failedTests) = SumErrors(events)
  /\ \A k \in 1..Len(events) :
       events[k].status = "failed" =>
         LET recs == Titled(failedTests, events[k].title)
         IN /\ Len(recs) = Len(events[k].errors) * Deliveries(events[k].title)
            /\ \A i \in 1..Len(recs) : recs[i].duration = events[k].duration
  /\ (pc # "running" /\ failedTests # <<>>) =>
       stats.totalDuration = SumErrorDurations(events)

C30_Witness ==
  /\ pc = "write"
  /\ Len(events) = 2
  /\ events[1].status = "failed" /\ events[1].errors = <<>>
  /\ events[2].title = "t2"
  /\ Len(Flat(failedTests)) = 2
  /\ stats.totalDuration = 14

----------------------------------------------------------------------------
(* extractDataFromTags on tags whose value holds a colon *)

ColonTags ==
  {TagEnvAB, TagEnvQa, TagLocalAB, TagLocaleAB, TagRealmAB, TagPaymentAB, TagPaymentCb}

InitColons ==
  /\ events = <<>>
  /\ failedTests = <<>>
  /\ tests = <<>>
  /\ stats = ZeroStats
  /\ WEB_HOOK_URL = "undefined"
  /\ pc = "call"
  /\ attempt = 0
  /\ retries = DefaultRetries
  /\ calls = <<>>
  /\ log = <<>>
  /\ thrown = <<>>
  /\ script = NoScript
  /\ input \in UNION {[1..n -> ColonTags] : n \in 0..MaxTags}
  /\ output = <<>>

SpecColons == InitColons /\ [][NextTags]_vars

\* the text of a tag after its first colon
AfterColon(tag) == Drop(tag, IndexOf(tag, ":"))

\* the part of v before its first colon, v itself when it has none
BeforeColon(v) ==
  LET n == CHOOSE n \in 0..Len(v) :
             /\ \A j \in 1..n : v[j] # ":"
             /\ n < Len(v) => v[n + 1] = ":"
  IN SubSeq(v, 1, n)

\* the last tag of the list that starts with one of the prefixes, as a list
\* of one tag, empty when there is none
LastWithPrefix(tags, prefixes) ==
  LET at == {i \in 1..Len(tags) : \E p \in prefixes : StartsWith(tags[i], p)}
  IN IF at = {} THEN <<>> ELSE <<tags[CHOOSE i \in at : \A j \in at : j <= i]>>

(* C31: of a generic tag @key:v whose v holds a colon only the part of v   *)
(* before that colon is stored under the key, while a local, locale, realm *)
(* or payment_method tag gives all the text after its prefix, colons       *)
(* included.                                                               *)
C31_ColonInValue ==
  pc = "return" =>
    /\ \A i \in 1..Len(input) :
         (/\ IsGeneric(input[i])
          /\ \A j \in (i+1)..Len(input) :
               IsGeneric(input[j]) => KeyOf(input[j]) # KeyOf(input[i]))
         => GenericOf(output.customTags, input[i]) = <<BeforeColon(AfterColon(input[i]))>>
    /\ LET l == LastWithPrefix(input, {PrefixLocal, PrefixLocale})
       IN l # <<>> => output.local = AfterColon(l[1])
    /\ LET r == LastWithPrefix(input, {PrefixRealm})
       IN r # <<>> => output.realm = AfterColon(r[1])
    /\ LET pay == SelectSeq(input, LAMBDA t : StartsWith(t, PrefixPayment))
       IN PaymentOf(output.customTags) = [i \in 1..Len(pay) |-> AfterColon(pay[i])]
    /\ input = <<TagEnvAB, TagLocaleAB, TagRealmAB, TagPaymentAB>> =>
         /\ GenericOf(output.customTags, TagEnvAB) = <<<<"a">>>>
         /\ output.local = <<"a", ":", "b">>
         /\ output.realm = <<"a", ":", "b">>
         /\ PaymentOf(output.customTags) = <<<<"a", ":", "b">>>>

C31_Witness ==
  /\ pc = "return"
  /\ input = <<TagEnvAB, TagLocaleAB, TagRealmAB, TagPaymentAB>>
  /\ GenericOf(output.customTags, TagEnvAB) = <<<<"a">>>>
  /\ output.local = <<"a", ":", "b">>

====
